---- MODULE Spec2Model ----
(***************************************************************************)
(* Model of the neocmakelsp binary resolver of the Zed extension            *)
(* (src/src/cmake.rs): NeoCMakeExt::language_server_binary_path, its        *)
(* fallback scan find_cached_binary_on_drive, and language_server_command.  *)
(* Names and paths are strings; the working directory is a set of entry     *)
(* names plus the set of paths that are regular files.                      *)
(*                                                                          *)
(* last records the most recent call (inputs, state before, result, calls   *)
(* made); downloaded records the path returned by the last call that        *)
(* downloaded a release, for as long as the working directory has not       *)
(* changed since.                                                           *)
(***************************************************************************)
EXTENDS Integers, Sequences, FiniteSets, TLC

VARIABLES platform, arch, cached_binary_path, fs, last, downloaded

vars == <<platform, arch, cached_binary_path, fs, last, downloaded>>

(***************************************************************************)
(* Bounds of the model.                                                     *)
(***************************************************************************)
\* largest number of entries in the working directory when the process starts
MaxEntries == 2

(***************************************************************************)
(* Option<T> and Result<T, String>.                                         *)
(***************************************************************************)
None == [some |-> FALSE]
Some(v) == [some |-> TRUE, val |-> v]
Ok(v) == [ok |-> TRUE, val |-> v]
Err(e) == [ok |-> FALSE, err |-> e]

(***************************************************************************)
(* String helpers (str::starts_with, str::strip_prefix, str::split).        *)
(***************************************************************************)
starts_with(s, p) == Len(s) >= Len(p) /\ SubSeq(s, 1, Len(p)) = p

strip_prefix(s, p) ==
    IF starts_with(s, p) THEN Some(SubSeq(s, Len(p) + 1, Len(s))) ELSE None

\* index of the first occurrence of the character c in s at or after i, 0 if none
RECURSIVE find_char(_, _, _)
find_char(s, c, i) ==
    IF i > Len(s) THEN 0
    ELSE IF SubSeq(s, i, i) = c THEN i
    ELSE find_char(s, c, i + 1)

\* s.split(c): the pieces between the separators, always at least one piece
RECURSIVE split(_, _)
split(s, c) ==
    LET i == find_char(s, c, 1) IN
    IF i = 0 THEN <<s>>
    ELSE <<SubSeq(s, 1, i - 1)>> \o split(SubSeq(s, i + 1, Len(s)), c)

(***************************************************************************)
(* u32.  A value is kept as its two 16-bit halves <<hi, lo>>, value         *)
(* hi * 65536 + lo, so that the whole range 0 .. 2^32 - 1 is represented.   *)
(***************************************************************************)
Half == 65536

u32(n) == <<n \div Half, n % Half>>

u32_lt(a, b) == a[1] < b[1] \/ (a[1] = b[1] /\ a[2] < b[2])

\* as u32_push_digit, but overflowing at 2^31 like a signed 32-bit integer
i32_push_digit(x, d) ==
    LET lo == x[2] * 10 + d
        hi == x[1] * 10 + (lo \div Half)
    IN IF hi >= Half \div 2 THEN None ELSE Some(<<hi, lo % Half>>)

\* checked_mul(10) then checked_add(d): None on overflow
u32_push_digit(x, d) ==
    LET lo == x[2] * 10 + d
        hi == x[1] * 10 + (lo \div Half)
    IN IF hi >= Half THEN None ELSE Some(<<hi, lo % Half>>)

(***************************************************************************)
(* str::parse::<u32>: an optional leading '+', then one or more decimal     *)
(* digits, the value fitting in 32 bits; anything else is an error.         *)
(***************************************************************************)
Digits == {"0", "1", "2", "3", "4", "5", "6", "7", "8", "9"}

DigitVal(c) ==
    CASE c = "0" -> 0 [] c = "1" -> 1 [] c = "2" -> 2 [] c = "3" -> 3
      [] c = "4" -> 4 [] c = "5" -> 5 [] c = "6" -> 6 [] c = "7" -> 7
      [] c = "8" -> 8 [] c = "9" -> 9

\* accumulates the digits of s from position i on; None on a character that
\* is not a digit or on overflow
RECURSIVE parse_digits(_, _, _)
parse_digits(s, i, acc) ==
    IF i > Len(s) THEN Some(acc)
    ELSE IF SubSeq(s, i, i) \notin Digits THEN None
    ELSE LET next == u32_push_digit(acc, DigitVal(SubSeq(s, i, i))) IN
         IF ~next.some THEN None ELSE parse_digits(s, i + 1, next.val)

parse_u32(s) ==
    LET body == IF Len(s) > 0 /\ SubSeq(s, 1, 1) = "+"
                THEN SubSeq(s, 2, Len(s)) ELSE s
    IN IF Len(body) = 0 THEN None ELSE parse_digits(body, 1, u32(0))

(***************************************************************************)
(* Ord for (u32, u32, u32): lexicographic on the components.                *)
(***************************************************************************)
\* as version_lt, but comparing major and minor only
version_lt_no_patch(a, b) ==
    \/ u32_lt(a[1], b[1])
    \/ a[1] = b[1] /\ u32_lt(a[2], b[2])

version_lt(a, b) ==
    \/ u32_lt(a[1], b[1])
    \/ a[1] = b[1] /\ u32_lt(a[2], b[2])
    \/ a[1] = b[1] /\ a[2] = b[2] /\ u32_lt(a[3], b[3])

version_le(a, b) == a = b \/ version_lt(a, b)

(***************************************************************************)
(* The working directory.  fs.entries: names of the entries of ".";         *)
(* fs.files: relative paths that are regular files; fs.dirs: relative paths *)
(* below an entry that are directories; fs.execs: files on which            *)
(* make_file_executable has succeeded.                                      *)
(***************************************************************************)
is_file(f, path) == path \in f.files

\* the entry of "." under which a relative path lives
top_component(path) ==
    LET i == find_char(path, "/", 1) IN
    IF i = 0 THEN path ELSE SubSeq(path, 1, i - 1)

under(name, path) == path = name \/ starts_with(path, name \o "/")

exe_suffix_of(os) == IF os = "Windows" THEN ".exe" ELSE ""

exe_suffix == exe_suffix_of(platform)

binary_path_in(dir_name, suffix) == dir_name \o "/neocmakelsp" \o suffix

\* fs::remove_dir_all(entry.path()) when it succeeds
remove_entry(f, name) ==
    [entries |-> f.entries \ {name},
     files   |-> {p \in f.files : ~under(name, p)},
     dirs    |-> {p \in f.dirs : ~under(name, p)},
     execs   |-> {p \in f.execs : ~under(name, p)}]

\* zed::download_file when it succeeds: the archive is unpacked into
\* version_dir and holds the server binary, not yet marked executable
extract_into(f, version_dir, binary_path) ==
    [entries |-> f.entries \cup {top_component(version_dir)},
     files   |-> f.files \cup {binary_path},
     dirs    |-> f.dirs \ {binary_path},
     execs   |-> f.execs \ {binary_path}]

\* zed::download_file when it fails after having created version_dir
create_dir_only(f, version_dir) ==
    [f EXCEPT !.entries = @ \cup {top_component(version_dir)}]

\* zed::make_file_executable when it succeeds
make_file_executable(f, path) == [f EXCEPT !.execs = @ \cup {path}]

(***************************************************************************)
(* find_cached_binary_on_drive.  rd is the result of fs::read_dir("."):     *)
(* Err, or Ok of the sequence of items in enumeration order, each item      *)
(* Ok(name) or Err.  The two flatten() calls drop a failed listing and      *)
(* every failed item.                                                       *)
(***************************************************************************)
\* as scan_entry, but without the check for extra parts
scan_entry_three_parts(f, dir_name, suffix) ==
    LET version_str == strip_prefix(dir_name, "neocmakelsp-v") IN
    IF ~version_str.some THEN None
    ELSE
    LET parts == split(version_str.val, ".")
        major == parse_u32(parts[1])
        minor == IF Len(parts) >= 2 THEN parse_u32(parts[2]) ELSE None
        patch == IF Len(parts) >= 3 THEN parse_u32(parts[3]) ELSE None
        candidate == binary_path_in(dir_name, suffix)
    IN
    IF ~major.some \/ ~minor.some \/ ~patch.some THEN None
    ELSE IF ~is_file(f, candidate) THEN None
    ELSE Some([version |-> <<major.val, minor.val, patch.val>>,
               path |-> candidate])

\* the filter_map closure: Some((major, minor, patch), candidate) or None
scan_entry(f, dir_name, suffix) ==
    IF ~starts_with(dir_name, "neocmakelsp-") THEN None
    ELSE
    LET version_str == strip_prefix(dir_name, "neocmakelsp-v") IN
    IF ~version_str.some THEN None
    ELSE
    LET parts == split(version_str.val, ".")
        major == parse_u32(parts[1])
        minor == IF Len(parts) >= 2 THEN parse_u32(parts[2]) ELSE None
        patch == IF Len(parts) >= 3 THEN parse_u32(parts[3]) ELSE None
        candidate == binary_path_in(dir_name, suffix)
    IN
    IF ~major.some \/ ~minor.some \/ ~patch.some THEN None
    ELSE IF Len(parts) > 3 THEN None
    ELSE IF ~is_file(f, candidate) THEN None
    ELSE Some([version |-> <<major.val, minor.val, patch.val>>,
               path |-> candidate])

\* Iterator::max_by_key: of several maximal elements the last one is returned
RECURSIVE max_by_key(_, _)
max_by_key(items, best) ==
    IF items = <<>> THEN best
    ELSE LET x == Head(items) IN
         IF ~best.some \/ version_le(best.val.version, x.version)
         THEN max_by_key(Tail(items), Some(x))
         ELSE max_by_key(Tail(items), best)

RECURSIVE scan_items(_, _, _)
scan_items(f, items, suffix) ==
    IF items = <<>> THEN <<>>
    ELSE LET it == Head(items)
             c  == IF it.ok THEN scan_entry(f, it.val, suffix) ELSE None
         IN (IF c.some THEN <<c.val>> ELSE <<>>)
              \o scan_items(f, Tail(items), suffix)

find_cached_binary_on_drive(f, rd, suffix) ==
    LET items == IF rd.ok THEN rd.val ELSE <<>>
        best  == max_by_key(scan_items(f, items, suffix), None)
    IN IF best.some THEN Some(best.val.path) ELSE None

(***************************************************************************)
(* Platform, architecture and the asset-name table.                         *)
(***************************************************************************)
Os == {"Mac", "Linux", "Windows"}

Architecture == {"Aarch64", "X86", "X8664"}

asset_name_of(os, a) ==
    CASE os = "Mac" -> Some("neocmakelsp-universal-apple-darwin.tar.gz")
      [] os = "Windows" /\ a = "Aarch64" ->
            Some("neocmakelsp-aarch64-pc-windows-msvc.zip")
      [] os = "Windows" /\ a = "X8664" ->
            Some("neocmakelsp-x86_64-pc-windows-msvc.zip")
      [] os = "Linux" /\ a = "Aarch64" ->
            Some("neocmakelsp-aarch64-unknown-linux-gnu.tar.gz")
      [] os = "Linux" /\ a = "X8664" ->
            Some("neocmakelsp-x86_64-unknown-linux-gnu.tar.gz")
      [] OTHER -> None

\* release.assets.iter().find(|asset| asset.name == asset_name)
RECURSIVE find_asset(_, _)
find_asset(assets, name) ==
    IF assets = <<>> THEN None
    ELSE IF Head(assets).name = name THEN Some(Head(assets))
    ELSE find_asset(Tail(assets), name)

(***************************************************************************)
(* What the host and the environment can answer to one call.                *)
(***************************************************************************)
WhichResults == {None, Some("/usr/bin/neocmakelsp")}

RemoteErrors == {"connection refused", "rate limit exceeded"}

ReleaseVersions == {"v1.3.0", "v1.4.0", "1.4.0"}

Asset(n) == [name |-> n, download_url |-> "https://github.com/dl/" \o n]

AllAssets ==
    << Asset("neocmakelsp-universal-apple-darwin.tar.gz"),
       Asset("neocmakelsp-aarch64-pc-windows-msvc.zip"),
       Asset("neocmakelsp-x86_64-pc-windows-msvc.zip"),
       Asset("neocmakelsp-aarch64-unknown-linux-gnu.tar.gz"),
       Asset("neocmakelsp-x86_64-unknown-linux-gnu.tar.gz") >>

SourceOnlyAssets == << Asset("neocmakelsp-source.tar.gz") >>

Releases ==
    {Err(e) : e \in RemoteErrors}
      \cup {Ok([version |-> v, assets |-> a]) :
              v \in ReleaseVersions, a \in {AllAssets, SourceOnlyAssets}}

DownloadError == "connection reset"

MarkError == "permission denied"

IoError == "input/output error"

\* all orders in which a set of names can be enumerated
RECURSIVE Perms(_)
Perms(S) ==
    IF S = {} THEN {<<>>}
    ELSE UNION {{<<x>> \o p : p \in Perms(S \ {x})} : x \in S}

\* one fixed order of a set of names
RECURSIVE SeqOf(_)
SeqOf(S) ==
    IF S = {} THEN <<>>
    ELSE LET x == CHOOSE y \in S : TRUE IN <<x>> \o SeqOf(S \ {x})

OkItems(names) == [i \in 1..Len(names) |-> Ok(names[i])]

\* a listing in which the k-th item failed to be read (none if k = 0)
Items(p, k) == [i \in 1..Len(p) |-> IF i = k THEN Err(IoError) ELSE Ok(p[i])]

\* results of fs::read_dir(".") in the fallback scan, in one order: a failed
\* listing, all items read, or one item failed
OneOrderListings(f) ==
    {Err(IoError)} \cup {Ok(Items(SeqOf(f.entries), k)) : k \in 0..Cardinality(f.entries)}

\* the same, with the listings that read all items in every order
ScanListings(f) ==
    OneOrderListings(f) \cup {Ok(Items(p, 0)) : p \in Perms(f.entries)}

\* results of fs::read_dir(".") in the cleanup loop: the loop stops at the
\* first failed item, so a listing is the entries read before it, in an order
\* that does not matter to the loop, followed by the failed item if any
CleanupListings(f) ==
    {Err(IoError), Ok(OkItems(SeqOf(f.entries)))}
      \cup {Ok(Append(OkItems(SeqOf(S)), Err(IoError))) :
              S \in (SUBSET f.entries) \ {f.entries}}

ItemNames(items) == {items[i].val : i \in {j \in 1..Len(items) : items[j].ok}}

(***************************************************************************)
(* The inputs of the last call, as recorded in last.in.                     *)
(***************************************************************************)
NoInputs ==
    [which |-> None, release |-> None, scan_rd |-> None, download |-> "none",
     mark |-> "none", cleanup_rd |-> None, del_fail |-> {}]

(***************************************************************************)
(* The outcomes of language_server_binary_path, one per return statement.   *)
(* result: the value returned; cache, fs: the state left behind; log: the   *)
(* host and file-system calls made, in order; term: the return taken.       *)
(***************************************************************************)
Outcome(result, cache, f, log, term) ==
    [result |-> result, cache |-> cache, fs |-> f, log |-> log, term |-> term]

\* as path_override, but remembers the PATH result as the cached path
path_override_caching(path) ==
    Outcome(Ok(path), Some(path), fs, <<"which">>, "PathOverrideFound")

\* line 54-56
path_override(path) ==
    Outcome(Ok(path), cached_binary_path, fs, <<"which">>, "PathOverrideFound")

\* as cache_valid, but trusting the cached path without looking at the file
cache_valid_unchecked == cached_binary_path.some

\* as cache_valid, but tests for a directory instead of a regular file
cache_valid_is_dir ==
    cached_binary_path.some /\ cached_binary_path.val \in fs.dirs

\* line 58-59: the cached path is set and is a regular file
cache_valid ==
    cached_binary_path.some /\ is_file(fs, cached_binary_path.val)

\* line 60
cache_hit ==
    Outcome(Ok(cached_binary_path.val), cached_binary_path, fs,
            <<"which", "metadata">>, "CacheHit")

\* as RemotePrefix, but announcing the check after the release request
RemotePrefix_request_first ==
    <<"which">> \o (IF cached_binary_path.some THEN <<"metadata">> ELSE <<>>)
      \o <<"latest_github_release", "CheckingForUpdate">>

\* the calls made up to the release request, lines 54-81
RemotePrefix ==
    <<"which">> \o (IF cached_binary_path.some THEN <<"metadata">> ELSE <<>>)
      \o <<"CheckingForUpdate", "latest_github_release">>

\* as fallback, but gives up on the remote error without scanning
fallback_fail_fast(e, rd) ==
    Outcome(Err("GitHub unreachable and no cached binary found: " \o e),
            cached_binary_path, fs, RemotePrefix \o <<"eprintln">>, "NotFound")

\* as fallback, but the error does not carry the remote error
fallback_plain_error(e, rd) ==
    LET found == find_cached_binary_on_drive(fs, rd, exe_suffix) IN
    Outcome(IF found.some THEN Ok(found.val)
            ELSE Err("GitHub unreachable and no cached binary found"),
            cached_binary_path, fs,
            RemotePrefix \o <<"eprintln", "read_dir">>,
            IF found.some THEN "Found" ELSE "NotFound")

\* line 85-90
fallback(e, rd) ==
    LET found == find_cached_binary_on_drive(fs, rd, exe_suffix) IN
    Outcome(IF found.some THEN Ok(found.val)
            ELSE Err("GitHub unreachable and no cached binary found: " \o e),
            cached_binary_path, fs,
            RemotePrefix \o <<"eprintln", "read_dir">>,
            IF found.some THEN "Found" ELSE "NotFound")

\* line 107-112
unsupported_platform ==
    Outcome(Err("Unsupported platform-arch combination: "
                  \o platform \o " " \o arch),
            cached_binary_path, fs, RemotePrefix, "UnsupportedPlatform")

\* as asset_not_found, but falling back to the scan of the working directory
asset_not_found_scanning(asset_name) ==
    LET found == find_cached_binary_on_drive(
                     fs, Ok(OkItems(SeqOf(fs.entries))), exe_suffix) IN
    Outcome(IF found.some THEN Ok(found.val)
            ELSE Err("no asset found matching \"" \o asset_name \o "\""),
            cached_binary_path, fs, RemotePrefix \o <<"read_dir">>,
            "AssetNotFound")

\* line 119-123
asset_not_found(asset_name) ==
    Outcome(Err("no asset found matching \"" \o asset_name \o "\""),
            cached_binary_path, fs, RemotePrefix, "AssetNotFound")

\* as already_installed, but fetching the release again
already_installed_refetching(binary_path) ==
    Outcome(Ok(binary_path), Some(binary_path), fs,
            RemotePrefix \o <<"metadata", "Downloading", "download_file",
                              "make_file_executable">>,
            "AlreadyInstalled")

\* line 128 false, then 150-151
already_installed(binary_path) ==
    Outcome(Ok(binary_path), Some(binary_path), fs,
            RemotePrefix \o <<"metadata">>, "AlreadyInstalled")

\* as download_failed, but the failed download is not reported
download_failed_ignored(version_dir, partial) ==
    Outcome(Ok(binary_path_in(version_dir, exe_suffix)),
            cached_binary_path,
            IF partial THEN create_dir_only(fs, version_dir) ELSE fs,
            RemotePrefix \o <<"metadata", "Downloading", "download_file">>,
            "DownloadFailed")

\* as download_failed, but trying the download a second time
download_failed_retrying(version_dir, partial) ==
    Outcome(Err("failed to download file: " \o DownloadError),
            cached_binary_path,
            IF partial THEN create_dir_only(fs, version_dir) ELSE fs,
            RemotePrefix \o <<"metadata", "Downloading", "download_file",
                              "download_file">>,
            "DownloadFailed")

\* line 134-135: download_file fails, having created version_dir or not
download_failed(version_dir, partial) ==
    Outcome(Err("failed to download file: " \o DownloadError),
            cached_binary_path,
            IF partial THEN create_dir_only(fs, version_dir) ELSE fs,
            RemotePrefix \o <<"metadata", "Downloading", "download_file">>,
            "DownloadFailed")

\* as mark_failed, but remembering the path of the unmarked binary
mark_failed_caching(version_dir, binary_path) ==
    Outcome(Err(MarkError), Some(binary_path),
            extract_into(fs, version_dir, binary_path),
            RemotePrefix \o <<"metadata", "Downloading", "download_file",
                              "make_file_executable">>,
            "MarkExecutableFailed")

\* line 137: make_file_executable fails
mark_failed(version_dir, binary_path) ==
    Outcome(Err(MarkError), cached_binary_path,
            extract_into(fs, version_dir, binary_path),
            RemotePrefix \o <<"metadata", "Downloading", "download_file",
                              "make_file_executable">>,
            "MarkExecutableFailed")

\* as cleanup_loop, but without sparing the directory of the new version
RECURSIVE cleanup_loop_all(_, _, _, _)
cleanup_loop_all(f, items, version_dir, del_fail) ==
    IF items = <<>> THEN [fs |-> f, ok |-> TRUE, removals |-> 0]
    ELSE LET it == Head(items) IN
         IF ~it.ok THEN [fs |-> f, ok |-> FALSE, removals |-> 0]
         ELSE LET r == cleanup_loop_all(IF it.val \in del_fail THEN f
                                        ELSE remove_entry(f, it.val),
                                        Tail(items), version_dir, del_fail)
              IN [r EXCEPT !.removals = @ + 1]

\* as cleanup_loop, but removing only the entries named neocmakelsp-*
RECURSIVE cleanup_loop_own_prefix(_, _, _, _)
cleanup_loop_own_prefix(f, items, version_dir, del_fail) ==
    IF items = <<>> THEN [fs |-> f, ok |-> TRUE, removals |-> 0]
    ELSE LET it == Head(items) IN
         IF ~it.ok THEN [fs |-> f, ok |-> FALSE, removals |-> 0]
         ELSE IF it.val # version_dir /\ starts_with(it.val, "neocmakelsp-")
         THEN LET r == cleanup_loop_own_prefix(
                           IF it.val \in del_fail THEN f
                           ELSE remove_entry(f, it.val),
                           Tail(items), version_dir, del_fail)
              IN [r EXCEPT !.removals = @ + 1]
         ELSE cleanup_loop_own_prefix(f, Tail(items), version_dir, del_fail)

\* line 142-147: the loop over the listed items; stops at the first failed
\* item, removes every other entry unless its removal fails
RECURSIVE cleanup_loop(_, _, _, _)
cleanup_loop(f, items, version_dir, del_fail) ==
    IF items = <<>> THEN [fs |-> f, ok |-> TRUE, removals |-> 0]
    ELSE LET it == Head(items) IN
         IF ~it.ok THEN [fs |-> f, ok |-> FALSE, removals |-> 0]
         ELSE IF it.val # version_dir
         THEN LET r == cleanup_loop(IF it.val \in del_fail THEN f
                                    ELSE remove_entry(f, it.val),
                                    Tail(items), version_dir, del_fail)
              IN [r EXCEPT !.removals = @ + 1]
         ELSE cleanup_loop(f, Tail(items), version_dir, del_fail)

\* line 134-151 once download_file and make_file_executable have succeeded
installed(version_dir, binary_path, rd, del_fail) ==
    LET f1  == make_file_executable(
                   extract_into(fs, version_dir, binary_path), binary_path)
        log == RemotePrefix \o <<"metadata", "Downloading", "download_file",
                                 "make_file_executable", "read_dir">>
    IN
    IF ~rd.ok
    THEN Outcome(Err("failed to list working directory " \o rd.err),
                 cached_binary_path, f1, log, "CleanupFailed")
    ELSE
    LET r    == cleanup_loop(f1, rd.val, version_dir, del_fail)
        log2 == log \o [i \in 1..r.removals |-> "remove_dir_all"]
    IN
    IF ~r.ok
    THEN Outcome(Err("failed to load directory entry " \o IoError),
                 cached_binary_path, r.fs, log2, "CleanupFailed")
    ELSE Outcome(Ok(binary_path), Some(binary_path), r.fs, log2, "Downloaded")

(***************************************************************************)
(* Initial state: NeoCMakeExt::new() in a working directory left by earlier *)
(* processes (or by the user).                                              *)
(***************************************************************************)
\* entries an earlier process or the user may have left; bin says what is at
\* <name>/neocmakelsp<suffix>: a regular file, a directory, or nothing
Entry(name, bin) == [name |-> name, bin |-> bin]

InitialEntries ==
    { Entry("neocmakelsp-v1.2.9", "file"),
      Entry("neocmakelsp-v1.3.0", "file"),
      Entry("neocmakelsp-v1.3.0", "none"),
      Entry("neocmakelsp-v1.4.0", "dir"),
      Entry("neocmakelsp-1.4.0", "file"),
      Entry("cmake-v9.9.9", "file") }

\* the example of the specification: three installed versions
ExampleDir ==
    { Entry("neocmakelsp-v1.2.9", "file"),
      Entry("neocmakelsp-v1.3.0", "file"),
      Entry("neocmakelsp-v1.2.10", "file") }

\* the directories of at most MaxEntries entries, no name twice
DirsOver(pool) ==
    {S \in SUBSET pool :
        /\ Cardinality(S) <= MaxEntries
        /\ \A a, b \in S : a.name = b.name => a = b}

InitialDirs == DirsOver(InitialEntries) \cup {ExampleDir}

\* the names the fallback scan is exercised on: well-formed ones (among them
\* a leading zero, a sign, the largest u32 and one past it) and malformed ones
ScanEntries ==
    InitialEntries \cup ExampleDir \cup
    { Entry("neocmakelsp-v01.3.0", "file"),
      Entry("neocmakelsp-v+2.0.0", "file"),
      Entry("neocmakelsp-v4294967295.0.0", "file"),
      Entry("neocmakelsp-v4294967296.0.0", "file"),
      Entry("neocmakelsp-v1.2", "file"),
      Entry("neocmakelsp-v1.2.3.4", "file"),
      Entry("neocmakelsp-v1.x.0", "file"),
      Entry("neocmakelsp-v1.2.10", "dir") }

ScanDirs == DirsOver(ScanEntries) \cup {ExampleDir}

fs_of(S, suffix) ==
    LET bins(kind) == {binary_path_in(e.name, suffix) : e \in {x \in S : x.bin = kind}}
    IN [entries |-> {e.name : e \in S},
        files   |-> bins("file"),
        dirs    |-> bins("dir"),
        execs   |-> bins("file")]

Idle(op) ==
    [op |-> op, in |-> NoInputs, pre_cache |-> None, pre_fs |-> fs_of({}, ""),
     result |-> Err(""), log |-> <<>>, term |-> "none", command |-> Err("")]

Init ==
    /\ platform \in Os
    /\ arch \in Architecture
    /\ cached_binary_path = None
    /\ \E S \in InitialDirs : fs = fs_of(S, exe_suffix_of(platform))
    /\ last = Idle("new")
    /\ downloaded = None

(***************************************************************************)
(* language_server_command: resolves the binary and wraps the path.         *)
(***************************************************************************)
\* as command_of, but without the "stdio" argument
command_of_no_args(result) ==
    IF result.ok
    THEN Ok([command |-> result.val, args |-> <<>>, env |-> <<>>])
    ELSE Err(result.err)

command_of(result) ==
    IF result.ok
    THEN Ok([command |-> result.val, args |-> <<"stdio">>, env |-> <<>>])
    ELSE Err(result.err)

Done(inp, out) ==
    /\ cached_binary_path' = out.cache
    /\ fs' = out.fs
    /\ last' = [op |-> "language_server_command", in |-> inp,
                pre_cache |-> cached_binary_path, pre_fs |-> fs,
                result |-> out.result, log |-> out.log, term |-> out.term,
                command |-> command_of(out.result)]
    /\ downloaded' = IF out.term = "Downloaded" THEN Some(out.result.val)
                     ELSE IF out.fs = fs THEN downloaded ELSE None
    /\ UNCHANGED <<platform, arch>>

\* the working directory has room for the entry of version_dir
has_room(version_dir) ==
    \/ top_component(version_dir) \in fs.entries
    \/ Cardinality(fs.entries) < MaxEntries

\* the removals that fail in the cleanup loop: any of those attempted when
\* every item is read, none otherwise
DeletionFailures(rd, version_dir) ==
    IF rd.ok /\ \A i \in 1..Len(rd.val) : rd.val[i].ok
    THEN SUBSET (ItemNames(rd.val) \ {version_dir})
    ELSE {{}}

\* lines 125-151, after the asset has been selected
Install(inp, version_dir, binary_path) ==
    \/ Done([inp EXCEPT !.download = "error"],
            download_failed(version_dir, FALSE))
    \/ /\ has_room(version_dir)
       /\ Done([inp EXCEPT !.download = "partial"],
               download_failed(version_dir, TRUE))
    \/ /\ has_room(version_dir)
       /\ Done([inp EXCEPT !.download = "ok", !.mark = "error"],
               mark_failed(version_dir, binary_path))
    \/ /\ has_room(version_dir)
       /\ \E rd \in CleanupListings(extract_into(fs, version_dir, binary_path)) :
          \E del_fail \in DeletionFailures(rd, version_dir) :
             Done([inp EXCEPT !.download = "ok", !.mark = "ok",
                              !.cleanup_rd = Some(rd), !.del_fail = del_fail],
                  installed(version_dir, binary_path, rd, del_fail))

\* lines 93-151, after the release request has succeeded
Remote(inp, release) ==
    LET asset_name == asset_name_of(platform, arch) IN
    IF ~asset_name.some THEN Done(inp, unsupported_platform)
    ELSE
    LET asset == find_asset(release.assets, asset_name.val) IN
    IF ~asset.some THEN Done(inp, asset_not_found(asset_name.val))
    ELSE
    LET version_dir == "neocmakelsp-" \o release.version
        binary_path == binary_path_in(version_dir, exe_suffix)
    IN
    IF is_file(fs, binary_path) THEN Done(inp, already_installed(binary_path))
    ELSE Install(inp, version_dir, binary_path)

Call(Which, Rels, every_order) ==
    /\ last.op \in {"new", "idle"}
    /\ \E w \in Which :
         LET inp0 == [NoInputs EXCEPT !.which = w] IN
         IF w.some THEN Done(inp0, path_override(w.val))
         ELSE IF cache_valid THEN Done(inp0, cache_hit)
         ELSE
         \E rel \in Rels :
            LET inp1 == [inp0 EXCEPT !.release = Some(rel)] IN
            IF ~rel.ok
            THEN \E rd \in (IF every_order THEN ScanListings(fs)
                              ELSE OneOrderListings(fs)) :
                    Done([inp1 EXCEPT !.scan_rd = Some(rd)],
                         fallback(rel.err, rd))
            ELSE Remote(inp1, rel.val)

LanguageServerCommand == Call(WhichResults, Releases, FALSE)

\* the same call while the binary is not on the PATH and the release source
\* cannot be reached, the working directory enumerated in every order
OfflineLanguageServerCommand ==
    Call({None}, {Err("connection refused")}, TRUE)

\* the host takes the returned command (or error); the extension is idle
\* until the next request
HostTakesResult ==
    /\ last.op = "language_server_command"
    /\ last' = Idle("idle")
    /\ UNCHANGED <<platform, arch, cached_binary_path, fs, downloaded>>

(***************************************************************************)
(* The working directory is shared with the user and other processes: an    *)
(* entry can disappear between two calls.                                   *)
(***************************************************************************)
ExternalRemove ==
    /\ last.op \in {"new", "idle"}
    /\ \E name \in fs.entries : fs' = remove_entry(fs, name)
    /\ last' = Idle("idle")
    /\ downloaded' = None
    /\ UNCHANGED <<platform, arch, cached_binary_path>>

(***************************************************************************)
(* The host unloads the extension and loads it again: NeoCMakeExt::new()    *)
(* in the working directory as the previous process left it.                *)
(***************************************************************************)
Restart ==
    /\ last.op = "idle"
    /\ cached_binary_path' = None
    /\ last' = Idle("new")
    /\ UNCHANGED <<platform, arch, fs, downloaded>>

Next == LanguageServerCommand \/ HostTakesResult \/ ExternalRemove \/ Restart

Spec == Init /\ [][Next]_vars

(***************************************************************************)
(* The fallback scan on its own: NeoCMakeExt::new() in any of the scanned   *)
(* directories, every call made offline.                                    *)
(***************************************************************************)
ScanInit ==
    /\ platform \in Os
    /\ arch = "X8664"
    /\ cached_binary_path = None
    /\ \E S \in ScanDirs : fs = fs_of(S, exe_suffix_of(platform))
    /\ last = Idle("new")
    /\ downloaded = None

ScanNext == OfflineLanguageServerCommand \/ HostTakesResult

ScanSpec == ScanInit /\ [][ScanNext]_vars

TypeOK ==
    /\ platform \in Os
    /\ arch \in Architecture
    /\ fs.execs \subseteq fs.files
    /\ downloaded.some => downloaded.val \in fs.files

(***************************************************************************)
(* Vocabulary of the properties.                                            *)
(***************************************************************************)
Called == last.op = "language_server_command"

\* true iff sub occurs in s
contains(s, sub) ==
    \E i \in 1..(Len(s) - Len(sub) + 1) : SubSeq(s, i, i + Len(sub) - 1) = sub

Logged(ev) == \E i \in 1..Len(last.log) : last.log[i] = ev

\* the call made no release request, no announcement, no download, no
\* listing and no deletion, and left the working directory as it was
NoRemoteWork ==
    /\ ~Logged("latest_github_release")
    /\ ~Logged("CheckingForUpdate")
    /\ ~Logged("Downloading")
    /\ ~Logged("download_file")
    /\ ~Logged("read_dir")
    /\ ~Logged("remove_dir_all")
    /\ fs = last.pre_fs

PathOverride == Called /\ last.in.which.some

\* the cached path was set and named a regular file when the call started
CacheWasValid ==
    last.pre_cache.some /\ last.pre_cache.val \in last.pre_fs.files

RemoteFailed ==
    /\ Called /\ ~last.in.which.some /\ ~CacheWasValid
    /\ last.in.release.some /\ ~last.in.release.val.ok

RemoteSucceeded ==
    /\ Called /\ ~last.in.which.some /\ ~CacheWasValid
    /\ last.in.release.some /\ last.in.release.val.ok

\* the names the fallback scan of the call was given by the listing
Seen ==
    IF last.in.scan_rd.some /\ last.in.scan_rd.val.ok
    THEN ItemNames(last.in.scan_rd.val.val) ELSE {}

PreSuffix == exe_suffix_of(platform)

\* the naming scheme neocmakelsp-v<major>.<minor>.<patch>, read off the name
\* character by character
SchemePrefix == "neocmakelsp-v"

HasSchemePrefix(name) ==
    Len(name) >= Len(SchemePrefix)
      /\ SubSeq(name, 1, Len(SchemePrefix)) = SchemePrefix

VersionPart(name) == SubSeq(name, Len(SchemePrefix) + 1, Len(name))

DotsOf(s) == {i \in 1..Len(s) : SubSeq(s, i, i) = "."}

\* the three components of a version part with exactly two dots
ComponentsOf(s) ==
    LET d1 == CHOOSE i \in DotsOf(s) : \A j \in DotsOf(s) : i <= j
        d2 == CHOOSE i \in DotsOf(s) : \A j \in DotsOf(s) : j <= i
    IN <<SubSeq(s, 1, d1 - 1), SubSeq(s, d1 + 1, d2 - 1),
         SubSeq(s, d2 + 1, Len(s))>>

\* a decimal numeral: one or more digits
Numeral(s) ==
    Len(s) >= 1 /\ \A i \in 1..Len(s) : SubSeq(s, i, i) \in Digits

\* a decimal numeral with an optional plus sign
SignedNumeral(s) ==
    \/ Numeral(s)
    \/ Len(s) >= 2 /\ SubSeq(s, 1, 1) = "+" /\ Numeral(SubSeq(s, 2, Len(s)))

WrongPrefix(name) == ~HasSchemePrefix(name)

MissingComponent(name) ==
    HasSchemePrefix(name) /\ Cardinality(DotsOf(VersionPart(name))) < 2

ExtraComponent(name) ==
    HasSchemePrefix(name) /\ Cardinality(DotsOf(VersionPart(name))) > 2

NonNumericComponent(name) ==
    /\ HasSchemePrefix(name)
    /\ Cardinality(DotsOf(VersionPart(name))) = 2
    /\ \E k \in 1..3 : ~SignedNumeral(ComponentsOf(VersionPart(name))[k])

Malformed(name) ==
    \/ WrongPrefix(name) \/ MissingComponent(name)
    \/ ExtraComponent(name) \/ NonNumericComponent(name)

\* the digits of a numeral without sign and leading zeros
RECURSIVE StripZeros(_)
StripZeros(s) ==
    IF Len(s) > 1 /\ SubSeq(s, 1, 1) = "0" THEN StripZeros(SubSeq(s, 2, Len(s)))
    ELSE s

Canon(s) ==
    StripZeros(IF SubSeq(s, 1, 1) = "+" THEN SubSeq(s, 2, Len(s)) ELSE s)

\* a < b for two numerals without leading zeros, as integers
NumLess(a, b) ==
    \/ Len(a) < Len(b)
    \/ /\ Len(a) = Len(b)
       /\ \E i \in 1..Len(a) :
            /\ SubSeq(a, 1, i - 1) = SubSeq(b, 1, i - 1)
            /\ DigitVal(SubSeq(a, i, i)) < DigitVal(SubSeq(b, i, i))

\* the version of a name that is not malformed, as three numerals
NumeralsOf(name) ==
    LET c == ComponentsOf(VersionPart(name)) IN
    <<Canon(c[1]), Canon(c[2]), Canon(c[3])>>

NumeralsLess(a, b) ==
    \/ NumLess(a[1], b[1])
    \/ a[1] = b[1] /\ NumLess(a[2], b[2])
    \/ a[1] = b[1] /\ a[2] = b[2] /\ NumLess(a[3], b[3])

FitsU32(n) == ~NumLess("4294967295", n)

\* a versioned install directory the scan can use: a name of the scheme, the
\* components within u32, the binary a regular file
ValidInstall(f, name) ==
    /\ ~Malformed(name)
    /\ \A k \in 1..3 : FitsU32(NumeralsOf(name)[k])
    /\ binary_path_in(name, PreSuffix) \in f.files

SeenValid == {n \in Seen : ValidInstall(last.pre_fs, n)}

(***************************************************************************)
(* C1: whenever which("neocmakelsp") returns a path, the call returns       *)
(* exactly that path, makes no release request, announcement, download,     *)
(* listing or deletion, and leaves the cached path unchanged, whatever the  *)
(* cached path and the working directory are.                               *)
(***************************************************************************)
C1_PathOverrideShortCircuits ==
    PathOverride =>
        /\ last.result = Ok(last.in.which.val)
        /\ NoRemoteWork
        /\ cached_binary_path = last.pre_cache

\* a call with a PATH override while a valid cached path and entries exist
C1_Witness ==
    /\ PathOverride
    /\ CacheWasValid
    /\ last.pre_fs.entries # {}
    /\ last.result = Ok("/usr/bin/neocmakelsp")

(***************************************************************************)
(* C2, as stated: every call in which the cached path is set and names a    *)
(* regular file returns that cached path without remote or directory work.  *)
(***************************************************************************)
C2_AsStated ==
    (Called /\ CacheWasValid) =>
        /\ last.result = Ok(last.pre_cache.val)
        /\ NoRemoteWork

(***************************************************************************)
(* C2, amended: every call without a PATH override in which the cached path *)
(* is set and names a regular file returns that cached path without         *)
(* requesting a release, announcing a status, listing the working           *)
(* directory, downloading or deleting anything.                             *)
(***************************************************************************)
C2_CacheHitShortCircuits ==
    (Called /\ ~last.in.which.some /\ CacheWasValid) =>
        /\ last.result = Ok(last.pre_cache.val)
        /\ NoRemoteWork
        /\ cached_binary_path = last.pre_cache

C2_Witness ==
    /\ Called /\ ~last.in.which.some /\ CacheWasValid
    /\ last.term = "CacheHit"
    /\ last.result = Ok(last.pre_cache.val)

(***************************************************************************)
(* C3: when there is no PATH override, no valid cache hit and the release   *)
(* request fails, the call runs the fallback scan: it returns the binary    *)
(* path of a valid install directory the scan found if there is one, and an *)
(* error only if the scan found none; nothing is downloaded or deleted.     *)
(***************************************************************************)
C3_RemoteFailureFallsBack ==
    RemoteFailed =>
        /\ Logged("read_dir")
        /\ last.result.ok <=> (SeenValid # {})
        /\ last.result.ok =>
             \E n \in SeenValid : last.result.val = binary_path_in(n, PreSuffix)
        /\ ~Logged("Downloading")
        /\ ~Logged("download_file")
        /\ ~Logged("remove_dir_all")
        /\ fs = last.pre_fs
        /\ cached_binary_path = last.pre_cache

\* the release request failed and the scan returned an installed binary
C3_Witness ==
    /\ RemoteFailed
    /\ SeenValid # {}
    /\ last.term = "Found"
    /\ last.result.ok

(***************************************************************************)
(* C4: when two or more valid cached versions are seen by the fallback scan *)
(* and one of them has the strictly greatest (major, minor, patch) triple   *)
(* under numeric comparison, the scan returns the binary path of that one,  *)
(* in whatever order the entries are enumerated.                            *)
(***************************************************************************)
C4_ScanSelectsGreatestVersion ==
    (RemoteFailed /\ Cardinality(SeenValid) >= 2) =>
        \A m \in SeenValid :
            (\A n \in SeenValid \ {m} :
                NumeralsLess(NumeralsOf(n), NumeralsOf(m)))
            => last.result = Ok(binary_path_in(m, PreSuffix))

\* the example {1.2.9, 1.3.0, 1.2.10}, enumerated with 1.3.0 first
C4_Witness ==
    /\ RemoteFailed
    /\ Seen = {"neocmakelsp-v1.2.9", "neocmakelsp-v1.3.0", "neocmakelsp-v1.2.10"}
    /\ SeenValid = Seen
    /\ last.in.scan_rd.val.val[1] = Ok("neocmakelsp-v1.3.0")
    /\ last.result = Ok(binary_path_in("neocmakelsp-v1.3.0", PreSuffix))

(***************************************************************************)
(* C5: the fallback scan never returns an entry that is malformed (wrong    *)
(* prefix, missing component, extra component, non-numeric component) or    *)
(* whose binary is missing or not a regular file, and such entries raise no *)
(* error: the result is the result of the scan over the other entries.      *)
(***************************************************************************)
C5_Usable(item) ==
    /\ item.ok
    /\ ~Malformed(item.val)
    /\ binary_path_in(item.val, PreSuffix) \in last.pre_fs.files

C5_ScanSkipsUnusableEntries ==
    RemoteFailed =>
        /\ last.result.ok =>
             \E n \in Seen :
                /\ ~Malformed(n)
                /\ binary_path_in(n, PreSuffix) \in last.pre_fs.files
                /\ last.result.val = binary_path_in(n, PreSuffix)
        /\ LET rd    == last.in.scan_rd.val
               clean == IF rd.ok THEN Ok(SelectSeq(rd.val, C5_Usable)) ELSE rd
               found == find_cached_binary_on_drive(last.pre_fs, clean, PreSuffix)
           IN IF found.some THEN last.result = Ok(found.val)
              ELSE ~last.result.ok /\ last.term = "NotFound"

\* a scan over a malformed entry that holds a binary and a valid entry, which
\* is returned
C5_Witness ==
    /\ RemoteFailed
    /\ \E n \in Seen :
          Malformed(n) /\ binary_path_in(n, PreSuffix) \in last.pre_fs.files
    /\ last.result.ok

(***************************************************************************)
(* The value of a u32 as a decimal numeral (Display for u32).               *)
(***************************************************************************)
DigitChar(d) == SubSeq("0123456789", d + 1, d + 1)

RECURSIVE format_u32(_)
format_u32(x) ==
    LET t  == (x[1] % 10) * Half + x[2]
        q  == <<x[1] \div 10, t \div 10>>
    IN IF q = <<0, 0>> THEN DigitChar(t % 10)
       ELSE format_u32(q) \o DigitChar(t % 10)

\* a name neocmakelsp-v<maj>.<min>.<patch> with unsigned decimal components
PlainName(name) ==
    /\ HasSchemePrefix(name)
    /\ Cardinality(DotsOf(VersionPart(name))) = 2
    /\ \A k \in 1..3 : Numeral(ComponentsOf(VersionPart(name))[k])

\* the scan parses the name to the triple of its components and uses that
\* triple as the key: nothing smaller is returned when the entry was seen
ParsedToItsTriple(name) ==
    /\ LET c == scan_entry(fs, name, exe_suffix) IN
         /\ c.some
         /\ \A k \in 1..3 : format_u32(c.val.version[k]) = NumeralsOf(name)[k]
    /\ (RemoteFailed /\ name \in Seen) =>
         /\ last.result.ok
         /\ ~NumeralsLess(NumeralsOf(top_component(last.result.val)),
                          NumeralsOf(name))

(***************************************************************************)
(* C6, as stated: for all non-negative integers maj, min, patch a directory *)
(* neocmakelsp-v<maj>.<min>.<patch> holding the binary is parsed by the     *)
(* scan to exactly (maj, min, patch), the key of the maximum comparison.    *)
(***************************************************************************)
C6_AsStated ==
    \A name \in fs.entries :
        (PlainName(name) /\ binary_path_in(name, exe_suffix) \in fs.files)
        => ParsedToItsTriple(name)

(***************************************************************************)
(* C6, amended: for all integers maj, min, patch from 0 to 4294967295 a     *)
(* directory neocmakelsp-v<maj>.<min>.<patch> holding the binary is parsed  *)
(* by the scan to exactly (maj, min, patch), the key of the maximum         *)
(* comparison.                                                              *)
(***************************************************************************)
C6_ParsesU32Triples ==
    \A name \in fs.entries :
        (/\ PlainName(name)
         /\ \A k \in 1..3 : FitsU32(NumeralsOf(name)[k])
         /\ binary_path_in(name, exe_suffix) \in fs.files)
        => ParsedToItsTriple(name)

\* the scan saw neocmakelsp-v4294967295.0.0 next to a smaller version and
\* returned it
C6_Witness ==
    /\ RemoteFailed
    /\ "neocmakelsp-v4294967295.0.0" \in Seen
    /\ Cardinality(SeenValid) = 2
    /\ last.result =
         Ok(binary_path_in("neocmakelsp-v4294967295.0.0", PreSuffix))

(***************************************************************************)
(* C7, as stated: when the release request succeeds and the binary of the   *)
(* returned version is already a regular file, the call returns its path    *)
(* without download, mark-executable, "Downloading" or cleanup, and the     *)
(* entries of the working directory are unchanged.                          *)
(***************************************************************************)
ReleaseDir == "neocmakelsp-" \o last.in.release.val.val.version

ReleaseBinary == binary_path_in(ReleaseDir, PreSuffix)

AlreadyThere == RemoteSucceeded /\ ReleaseBinary \in last.pre_fs.files

NoInstallWork ==
    /\ ~Logged("Downloading")
    /\ ~Logged("download_file")
    /\ ~Logged("make_file_executable")
    /\ ~Logged("read_dir")
    /\ ~Logged("remove_dir_all")
    /\ fs = last.pre_fs

C7_AsStated ==
    AlreadyThere => (last.result = Ok(ReleaseBinary) /\ NoInstallWork)

(***************************************************************************)
(* C7, amended: when the release request succeeds, the platform has an      *)
(* asset name, the release has an asset of that name, and the binary of the *)
(* returned version is already a regular file, the call returns its path    *)
(* without download, mark-executable, "Downloading" or cleanup, and the     *)
(* entries of the working directory are unchanged.                          *)
(***************************************************************************)
AssetSelected ==
    LET assets == last.in.release.val.val.assets
        wanted == asset_name_of(platform, arch)
    IN /\ wanted.some
       /\ \E i \in 1..Len(assets) : assets[i].name = wanted.val

C7_InstalledVersionIsReused ==
    (AlreadyThere /\ AssetSelected) =>
        (last.result = Ok(ReleaseBinary) /\ NoInstallWork)

\* the released version is installed next to another entry, which stays
C7_Witness ==
    /\ AlreadyThere /\ AssetSelected
    /\ last.term = "AlreadyInstalled"
    /\ Cardinality(last.pre_fs.entries) >= 2
    /\ fs.entries = last.pre_fs.entries

(***************************************************************************)
(* C8: after a call that downloaded version X and returned success, with no *)
(* deletion having failed, the working directory holds no entry other than  *)
(* the install directory of X, so at most one install directory survives.   *)
(***************************************************************************)
C8_DownloadLeavesOnlyNewVersion ==
    (RemoteSucceeded /\ last.in.download = "ok" /\ last.result.ok
       /\ last.in.del_fail = {})
    => /\ fs.entries \subseteq {ReleaseDir}
       /\ Cardinality(fs.entries) <= 1

\* a download into a directory holding other entries, all removed
C8_Witness ==
    /\ RemoteSucceeded /\ last.in.download = "ok" /\ last.result.ok
    /\ last.in.del_fail = {}
    /\ last.pre_fs.entries \ {ReleaseDir} # {}
    /\ fs.entries = {ReleaseDir}

(***************************************************************************)
(* C9: once download and mark-executable have succeeded, no failure during  *)
(* the cleanup (listing the directory, reading an entry, deleting an entry) *)
(* makes the call fail: it returns the new binary path and caches it.       *)
(***************************************************************************)
C9_CleanupNeverFailsTheCall ==
    (RemoteSucceeded /\ last.in.download = "ok" /\ last.in.mark = "ok")
    => /\ last.result = Ok(ReleaseBinary)
       /\ cached_binary_path = Some(ReleaseBinary)

(***************************************************************************)
(* C10: with no PATH override, no valid cache hit, a failed release request *)
(* with error e and a fallback scan that finds no valid candidate, the call *)
(* returns an error whose message contains e and the statement that no      *)
(* cached binary was found.                                                 *)
(***************************************************************************)
C10_CombinedError ==
    (RemoteFailed /\ SeenValid = {}) =>
        /\ ~last.result.ok
        /\ contains(last.result.err, last.in.release.val.err)
        /\ contains(last.result.err, "no cached binary found")

\* offline, the scan saw entries none of which is a valid install
C10_Witness ==
    /\ RemoteFailed /\ SeenValid = {}
    /\ Seen # {}
    /\ last.term = "NotFound"
    /\ ~last.result.ok

(***************************************************************************)
(* C11: when the release request succeeds but the platform/architecture     *)
(* pair has no asset name, or the release has no asset of that name, the    *)
(* call returns an error (the unsupported-platform error when both hold),   *)
(* without scanning the working directory, without announcing               *)
(* "Downloading", without downloading or deleting anything, and with the    *)
(* cached path unchanged.                                                   *)
(***************************************************************************)
\* the pairs of the asset-name table, lines 93-106
Supported == platform = "Mac" \/ arch \in {"Aarch64", "X8664"}

\* the release has no binary asset at all
SourceOnlyRelease == last.in.release.val.val.assets = SourceOnlyAssets

C11_FatalRemoteErrors ==
    (RemoteSucceeded /\ (~Supported \/ ~AssetSelected)) =>
        /\ ~last.result.ok
        /\ IF ~Supported
           THEN contains(last.result.err, "Unsupported platform-arch combination")
           ELSE contains(last.result.err, "no asset found matching")
        /\ ~Logged("read_dir")
        /\ ~Logged("Downloading")
        /\ ~Logged("download_file")
        /\ ~Logged("remove_dir_all")
        /\ fs = last.pre_fs
        /\ cached_binary_path = last.pre_cache

\* an unsupported pair and a release without the asset: the unsupported-
\* platform error is the one returned
C11_Witness ==
    /\ RemoteSucceeded /\ ~Supported /\ SourceOnlyRelease
    /\ contains(last.result.err, "Unsupported platform-arch combination")
    /\ last.pre_fs.entries # {}

\* a supported pair and a release without the asset, while a valid install
\* is in the working directory
C11_WitnessAsset ==
    /\ RemoteSucceeded /\ Supported /\ SourceOnlyRelease
    /\ contains(last.result.err, "no asset found matching")
    /\ \E n \in last.pre_fs.entries : ValidInstall(last.pre_fs, n)

(***************************************************************************)
(* C12, as stated: every call ends in one of PathOverrideFound, CacheHit,   *)
(* Downloaded, AlreadyInstalled, Found or NotFound; every one of them but   *)
(* NotFound yields a path, and the call returns an error only after the     *)
(* release request failed and the scan found no valid install.              *)
(***************************************************************************)
SuccessTerminals ==
    {"PathOverrideFound", "CacheHit", "Downloaded", "AlreadyInstalled", "Found"}

C12_AsStated ==
    Called =>
        /\ last.term \in SuccessTerminals \cup {"NotFound"}
        /\ last.result.ok <=> last.term \in SuccessTerminals
        /\ ~last.result.ok => (RemoteFailed /\ SeenValid = {})

(***************************************************************************)
(* C12, amended: every call ends in one of PathOverrideFound, CacheHit,     *)
(* Downloaded, AlreadyInstalled, Found, which yield a path, or in NotFound, *)
(* UnsupportedPlatform, AssetNotFound, DownloadFailed, MarkExecutableFailed *)
(* or CleanupFailed, which yield an error.  The call returns an error       *)
(* exactly when the release request failed and the scan found no valid      *)
(* install, or the release request succeeded and the platform has no asset  *)
(* name, the release lacks the asset, or, the binary being absent, the      *)
(* download, the mark-executable step or the listing of the working         *)
(* directory for the cleanup failed.                                        *)
(***************************************************************************)
FailureTerminals ==
    {"NotFound", "UnsupportedPlatform", "AssetNotFound", "DownloadFailed",
     "MarkExecutableFailed", "CleanupFailed"}

\* the listing made for the cleanup failed, as a whole or at one item
CleanupListingFailed ==
    /\ last.in.cleanup_rd.some
    /\ LET rd == last.in.cleanup_rd.val IN
       ~rd.ok \/ \E i \in 1..Len(rd.val) : ~rd.val[i].ok

InstallFailed ==
    \/ last.in.download \in {"error", "partial"}
    \/ last.in.mark = "error"
    \/ CleanupListingFailed

FailureCase ==
    \/ RemoteFailed /\ SeenValid = {}
    \/ RemoteSucceeded /\ ~AssetSelected
    \/ RemoteSucceeded /\ AssetSelected /\ ~AlreadyThere /\ InstallFailed

C12_TerminalStates ==
    Called =>
        /\ last.term \in SuccessTerminals \cup FailureTerminals
        /\ last.result.ok <=> last.term \in SuccessTerminals
        /\ ~last.result.ok <=> FailureCase

\* the release request succeeded, the download failed, and a valid install
\* was in the working directory: an error all the same
C12_Witness ==
    /\ RemoteSucceeded /\ AssetSelected /\ ~AlreadyThere
    /\ last.in.download = "error"
    /\ ~last.result.ok
    /\ \E n \in last.pre_fs.entries : ValidInstall(last.pre_fs, n)

(***************************************************************************)
(* C13: language_server_command succeeds exactly when the resolution of the *)
(* binary path succeeds; the command then runs the resolved path with the   *)
(* single argument "stdio" and an empty environment; otherwise the error of *)
(* the resolution is returned and there is no command.                      *)
(***************************************************************************)
C13_CommandWrapsResolvedPath ==
    Called =>
        /\ last.command.ok <=> last.result.ok
        /\ last.result.ok =>
              /\ last.command.val.command = last.result.val
              /\ last.command.val.args = <<"stdio">>
              /\ last.command.val.env = <<>>
        /\ ~last.result.ok =>
              /\ last.command = Err(last.result.err)
              /\ DOMAIN last.command = {"ok", "err"}

\* a command for a freshly downloaded binary
C13_Witness ==
    /\ Called /\ last.in.download = "ok" /\ last.in.mark = "ok"
    /\ last.result.ok
    /\ last.command.ok /\ last.command.val.command = ReleaseBinary

(***************************************************************************)
(* C14, as stated: the cached path is assigned at most once in the life of  *)
(* the process, and only by a call that returns success: a call that starts *)
(* with the cached path set leaves it as it is, and a call that changes it  *)
(* returns success.                                                         *)
(***************************************************************************)
C14_AsStated ==
    Called =>
        /\ last.pre_cache.some => cached_binary_path = last.pre_cache
        /\ cached_binary_path # last.pre_cache => last.result.ok

(***************************************************************************)
(* C14, amended: the cached path is assigned only by a call that returns    *)
(* success from the remote stage, to the path that call returns, and only   *)
(* by a call that started with the cached path unset or no longer naming a  *)
(* regular file; every other call leaves it as it is.                       *)
(***************************************************************************)
C14_CacheAssignedOnSuccess ==
    Called =>
        \/ cached_binary_path = last.pre_cache
        \/ /\ last.result.ok
           /\ cached_binary_path = Some(last.result.val)
           /\ RemoteSucceeded

\* the cached file has disappeared and a successful call assigns the cached
\* path a second time
C14_Witness ==
    /\ Called /\ last.pre_cache.some
    /\ cached_binary_path.some /\ cached_binary_path # last.pre_cache
    /\ last.result.ok

(***************************************************************************)
(* C15: in a call without a PATH override that starts with the cached path  *)
(* set but no longer naming a regular file, the cache stage does not return *)
(* it: the call goes on to the release request and, when that fails, to the *)
(* scan of the working directory; a path it returns names a regular file.   *)
(***************************************************************************)
StaleCache ==
    /\ Called /\ ~last.in.which.some
    /\ last.pre_cache.some /\ last.pre_cache.val \notin last.pre_fs.files

C15_StaleCacheIsNotReturned ==
    StaleCache =>
        /\ last.term # "CacheHit"
        /\ Logged("metadata")
        /\ Logged("latest_github_release") /\ last.in.release.some
        /\ ~last.in.release.val.ok =>
              Logged("read_dir") /\ last.in.scan_rd.some
        /\ last.result.ok => last.result.val \in fs.files

\* the cached file is gone and the release source cannot be reached: the
\* scan finds another install
C15_Witness ==
    /\ StaleCache /\ RemoteFailed
    /\ last.result.ok /\ last.result.val # last.pre_cache.val

(***************************************************************************)
(* C16: in every call the release source is requested at most once and the  *)
(* download is invoked at most once, also when either of them fails.        *)
(***************************************************************************)
Count(ev) == Cardinality({i \in 1..Len(last.log) : last.log[i] = ev})

C16_SingleAttempt ==
    Called =>
        /\ Count("latest_github_release") <= 1
        /\ Count("download_file") <= 1
        /\ RemoteFailed => Count("latest_github_release") = 1
        /\ last.in.download \in {"error", "partial"} =>
              /\ Count("download_file") = 1
              /\ Count("latest_github_release") = 1
              /\ ~last.result.ok

\* a failed download that left the version directory behind
C16_Witness ==
    /\ Called /\ last.in.download = "partial"
    /\ Count("download_file") = 1
    /\ ~last.result.ok
    /\ fs # last.pre_fs

(***************************************************************************)
(* C17: "CheckingForUpdate" is announced exactly once, before the release   *)
(* request, in every call that reaches the remote stage; "Downloading" is   *)
(* announced only after a successful release request and asset selection,   *)
(* only when the binary of the version is absent, and before the download   *)
(* starts; it is never announced without "CheckingForUpdate" before it.     *)
(***************************************************************************)
\* the position of the first ev in the call log, 0 if there is none
Pos(ev) ==
    IF Logged(ev)
    THEN CHOOSE i \in 1..Len(last.log) :
            /\ last.log[i] = ev
            /\ \A j \in 1..(i - 1) : last.log[j] # ev
    ELSE 0

Before(a, b) == Logged(a) /\ Logged(b) /\ Pos(a) < Pos(b)

ReachedRemoteStage == Called /\ ~last.in.which.some /\ ~CacheWasValid

C17_StatusOrder ==
    Called =>
        /\ Count("CheckingForUpdate") <= 1 /\ Count("Downloading") <= 1
        /\ ReachedRemoteStage <=> Logged("CheckingForUpdate")
        /\ ReachedRemoteStage =>
              Before("CheckingForUpdate", "latest_github_release")
        /\ Logged("Downloading") =>
              /\ RemoteSucceeded /\ AssetSelected /\ ~AlreadyThere
              /\ Before("CheckingForUpdate", "Downloading")
              /\ Before("latest_github_release", "Downloading")
        /\ Logged("download_file") => Before("Downloading", "download_file")
        /\ (RemoteSucceeded /\ AssetSelected /\ ~AlreadyThere) =>
              Before("Downloading", "download_file")

\* a call that starts with a stale cached path and downloads
C17_Witness ==
    /\ Called /\ last.pre_cache.some
    /\ Before("CheckingForUpdate", "latest_github_release")
    /\ Before("latest_github_release", "Downloading")
    /\ Before("Downloading", "download_file")

(***************************************************************************)
(* C18: in a working directory whose installs were all made by this         *)
(* resolver, every path a call returns from the remote stage names a file   *)
(* on which make_file_executable has succeeded, also when an earlier call   *)
(* failed to mark it.                                                       *)
(***************************************************************************)
C18_ReturnedBinaryIsExecutable ==
    (RemoteSucceeded /\ last.result.ok) => last.result.val \in fs.execs

(***************************************************************************)
(* C19: the cleanup deletes entries only after the download and the         *)
(* mark-executable step of the same call have both succeeded, and never the *)
(* directory of the version just installed; a call whose download or        *)
(* mark-executable step fails removes no entry, so the installs that were   *)
(* there stay valid installs.                                               *)
(***************************************************************************)
InstallStepsSucceeded == last.in.download = "ok" /\ last.in.mark = "ok"

InstallStepFailed ==
    last.in.download \in {"error", "partial"} \/ last.in.mark = "error"

OfflineAfterDownload ==
    RemoteFailed /\ ~last.pre_cache.some /\ downloaded.some

DownloadedDir == top_component(downloaded.val)

ScanReadEveryEntry ==
    /\ last.in.scan_rd.some /\ last.in.scan_rd.val.ok
    /\ Seen = last.pre_fs.entries

C20_DownloadedVersionIsFoundOffline ==
    ( /\ OfflineAfterDownload
      /\ ScanReadEveryEntry
      /\ DownloadedDir \in Seen
      /\ SeenValid \subseteq {DownloadedDir} )
    => last.result = Ok(downloaded.val)

====
